---- MODULE Spec2Model ----
(***************************************************************************)
(* Model of github_automated_vix_analyzer.py: the GitHubVIXAnalyzer object *)
(* and the run of main() over it.                                          *)
(*                                                                         *)
(* Numbers.  The program computes in binary floating point.  The model     *)
(* computes in fixed point, with units chosen so that every formula of     *)
(* calculate_risk_score is exact:                                          *)
(*   - VIX, volatilities and the VIX/RV spread are held in 1/InputScale    *)
(*     of a percentage point;                                              *)
(*   - the Nikkei/SP500 ratio and its deviation in 1/RatioScale;           *)
(*   - scores in 1/ScoreScale of a score point.                            *)
(* Values the program obtains by operations with no exact fixed-point      *)
(* counterpart (the rolling standard deviation times sqrt(252), the GARCH  *)
(* fit) are inputs of the run, drawn from bounded sets (the variable env). *)
(* A cell of a numeric column is <<v>>, or <<>> for NaN.                   *)
(***************************************************************************)
EXTENDS Integers, Sequences, FiniteSets, TLC

VARIABLES
    env,        \* what the outside world returns to this run (yfinance, arch)
    analyzer,   \* the GitHubVIXAnalyzer object: data, garch_model, risk_score, risk_level
    pc,         \* position of main()
    fit_result, \* what fit_garch_model returned to main
    risk_data,  \* the dict last returned by calculate_risk_score to its caller
    dashboard,  \* what create_dashboard drew and wrote
    report,     \* what generate_json_report returned
    error       \* the exception that ended main, if any

vars == <<env, analyzer, pc, fit_result, risk_data, dashboard, report, error>>

-----------------------------------------------------------------------------
(* Units of the fixed-point representation *)
InputScale == 10
RatioScale == 10000
ReturnScale == 10000
ScoreScale == 240

(* Program constants *)
Window == 20
ShortWindow == 5
VixDivisor == 40
VolDivisor == 30
SpreadDivisor == 15
RatioMultiplier == 1000
ScoreCap == 100
HighThreshold == 70
MediumThreshold == 40
AlertThreshold == 60
VixElevatedLevel == 25
SpreadQuantilePct == 80
RegimeLowPct == 33
RegimeHighPct == 67
RatioSigmas == 2
WarningCount == 2
CrashCount == 3
ScorePercent == 100

(* Bounds of the model *)
MaxRows == 2        \* rows past the first Window ones, main specification
MaxRowsLong == 5    \* the same, row-trimming specification

-----------------------------------------------------------------------------
(* Cells and small helpers *)
NaN == <<>>
IsNaN(c) == c = <<>>
Cell(v) == <<v>>
Val(c) == c[1]

Abs(x) == IF x < 0 THEN -x ELSE x
Min(a, b) == IF b < a THEN b ELSE a

RECURSIVE SumSeq(_)
SumSeq(s) == IF s = <<>> THEN 0 ELSE Head(s) + SumSeq(Tail(s))

Column(rows, name) == [i \in 1..Len(rows) |-> rows[i][name]]
Values(col) == [i \in 1..Len(col) |-> Val(col[i])]

None == "None"
NoFrame == [columns |-> {}, rows |-> <<>>]     \* self.data = None
Absent == <<>>                                 \* a dict not (yet) produced
Some(d) == <<d>>

-----------------------------------------------------------------------------
(* pandas operations used by the program *)

\* pct_change() followed by fillna(0): the first row is 0, not undefined.
pct_change_first_zero(col) ==
    [i \in 1..Len(col) |->
        IF i = 1 THEN Cell(0)
        ELSE IF IsNaN(col[i]) \/ IsNaN(col[i-1]) THEN NaN
        ELSE Cell(((Val(col[i]) - Val(col[i-1])) * ReturnScale) \div Val(col[i-1]))]

\* Series.pct_change(): (x_t - x_{t-1}) / x_{t-1}; the first row is undefined.
\* (The series of this model are wholly defined or wholly undefined, where
\* pct_change's forward fill changes nothing.)
pct_change(col) ==
    [i \in 1..Len(col) |->
        IF i = 1 \/ IsNaN(col[i]) \/ IsNaN(col[i-1]) THEN NaN
        ELSE Cell(((Val(col[i]) - Val(col[i-1])) * ReturnScale) \div Val(col[i-1]))]

\* Whether a full window of w defined values ends at row i (min_periods = w).
WindowDefined(col, w, i) ==
    i >= w /\ \A j \in (i-w+1)..i : ~IsNaN(col[j])

WindowValues(col, w, i) == [k \in 1..w |-> Val(col[i-w+k])]

\* Series.rolling(w).mean()
rolling_mean(col, w) ==
    [i \in 1..Len(col) |->
        IF WindowDefined(col, w, i)
        THEN Cell(SumSeq(WindowValues(col, w, i)) \div w)
        ELSE NaN]

\* Series.rolling(w).std() * np.sqrt(252) * 100: defined where the window is,
\* with the value the floating-point computation yields (an input of the run).
rolling_std_annualized(col, w, values) ==
    [i \in 1..Len(col) |->
        IF WindowDefined(col, w, i) THEN Cell(values[i]) ELSE NaN]

\* DataFrame.dropna(): the rows with no undefined cell, in their order.
RowComplete(row, numeric) == \A c \in numeric : ~IsNaN(row[c])
dropna(rows, numeric) == SelectSeq(rows, LAMBDA r : RowComplete(r, numeric))

\* The k-th smallest (k from 0) of a non-empty sequence of integers.
KthSmallest(xs, k) ==
    CHOOSE v \in {xs[i] : i \in 1..Len(xs)} :
        /\ Cardinality({i \in 1..Len(xs) : xs[i] < v}) <= k
        /\ Cardinality({i \in 1..Len(xs) : xs[i] <= v}) > k

\* Series.quantile(pct/100), linear interpolation, times 100 (to stay integral):
\* position h = (n-1)*q, result x[lo] + (h-lo)*(x[lo+1]-x[lo]).
Quantile100(xs, pct) ==
    LET n  == Len(xs)
        h  == (n - 1) * pct
        lo == h \div 100
        fr == h % 100
        a  == KthSmallest(xs, lo)
        b  == IF fr = 0 THEN a ELSE KthSmallest(xs, lo + 1)
    IN 100 * a + fr * (b - a)

\* v > Series.quantile(pct/100); the quantile of an empty series is NaN and
\* every comparison with NaN is False.
AboveQuantile(v, xs, pct) == Len(xs) > 0 /\ 100 * v > Quantile100(xs, pct)
BelowQuantile(v, xs, pct) == Len(xs) > 0 /\ 100 * v < Quantile100(xs, pct)

\* a > k * Series.std() for a >= 0 (sample standard deviation, ddof = 1).
\* var = (n*Q - S^2) / (n*(n-1)); fewer than two values give NaN, hence False.
AboveSigmas(a, xs, k) ==
    LET n == Len(xs)
        S == SumSeq(xs)
        Q == SumSeq([i \in 1..n |-> xs[i] * xs[i]])
    IN n >= 2 /\ a * a * n * (n - 1) > k * k * (n * Q - S * S)

-----------------------------------------------------------------------------
(* The outside world of one run *)

\* The first Window rows of every raw series hold these values; the rows past
\* them are drawn from the value sets below.
BaseRow == [VIX |-> 180, Nikkei |-> 38000, SP500 |-> 5000,
            RV20 |-> 150, RV5 |-> 120, GARCH |-> 160]

Kinds == {"empty", "disjoint", "aligned"}
FitOutcomes == {"raise_model", "raise_fit", "ok"}

TailLen(n) == IF n > Window THEN n - Window ELSE 0
Tails(n, S) == [1..TailLen(n) -> S]
WithTail(n, base, tail) == [i \in 1..n |-> IF i <= Window THEN base ELSE tail[i - Window]]

\* A run's inputs: the number n of ^VIX rows, whether ^N225 and ^GSPC are
\* empty, share no date with ^VIX or have its dates, the values of the rows
\* past the first Window ones, and the outcome of the fit.
MakeEnv(n, nk, sk, vix, nik, rv, fit, garch) ==
    [n |-> n, nikkei |-> nk, sp500 |-> sk,
     VIX |-> vix, Nikkei |-> nik, RV20 |-> rv, fit |-> fit, GARCH |-> garch]

\* The whole series of a run: BaseRow's value in the first Window rows
RawSeries(e, name) == WithTail(e.n, BaseRow[name], e[name])
FlatSeries(e, name) == [i \in 1..e.n |-> BaseRow[name]]

BaseTail(n, base) == [i \in 1..TailLen(n) |-> base]

\* The runs over raw series of the lengths ns: the three series aligned, with
\* every choice of the values of the rows past the first Window ones and of the
\* outcome of the fit; and the runs where a series is empty or shares no date.
EnvIn(e, ns, VIXs, Nikkeis, RVs, Garchs) ==
    \E n \in ns :
        \/ \E v \in Tails(n, VIXs), k \in Tails(n, Nikkeis),
              r \in Tails(n, RVs), g \in Tails(n, Garchs) :
                e = MakeEnv(n, "aligned", "aligned", v, k, r, "ok", g)
        \/ \E v \in Tails(n, VIXs), k \in Tails(n, Nikkeis),
              r \in Tails(n, RVs), f \in FitOutcomes \ {"ok"} :
                e = MakeEnv(n, "aligned", "aligned", v, k, r, f, BaseTail(n, BaseRow.GARCH))
        \/ \E kk \in (Kinds \X Kinds) \ {<<"aligned", "aligned">>}, f \in FitOutcomes :
                e = MakeEnv(n, kk[1], kk[2], BaseTail(n, BaseRow.VIX),
                            BaseTail(n, BaseRow.Nikkei), BaseTail(n, BaseRow.RV20),
                            f, BaseTail(n, BaseRow.GARCH))

VIXValues == {250, 350}
NikkeiValues == {38200, 38400}
RVValues == {100, 300}
GarchValues == {150, 320}

\* yf.download(ticker): a series of closes by date.  The dates of ^VIX are
\* 0..n-1; an aligned series has the same dates, a disjoint one has an earlier
\* date only, an empty one has none.
SeriesOf(kind, closes) ==
    CASE kind = "aligned"  -> [d \in 0..(Len(closes) - 1) |-> closes[d + 1]]
      [] kind = "disjoint" -> [d \in {-1} |-> BaseRow.Nikkei]
      [] kind = "empty"    -> [d \in {} |-> 0]

yf_download(e, ticker) ==
    CASE ticker = "^VIX"  -> SeriesOf("aligned", RawSeries(e, "VIX"))
      [] ticker = "^N225" -> SeriesOf(e.nikkei, RawSeries(e, "Nikkei"))
      [] ticker = "^GSPC" -> SeriesOf(e.sp500, FlatSeries(e, "SP500"))

IsEmpty(series) == DOMAIN series = {}

\* data[name] = series['Close'] on a frame indexed by vix.index: the value at
\* each date of the index, NaN where the series has no such date.
Reindex(series, n) ==
    [i \in 1..n |-> IF (i - 1) \in DOMAIN series THEN Cell(series[i - 1]) ELSE NaN]

\* NaN-propagating arithmetic on cells
CellSub(a, b) == IF IsNaN(a) \/ IsNaN(b) THEN NaN ELSE Cell(Val(a) - Val(b))
CellRatio(a, b) ==
    IF IsNaN(a) \/ IsNaN(b) THEN NaN ELSE Cell((Val(a) * RatioScale) \div Val(b))

DownloadColumns ==
    {"VIX", "Nikkei", "SP500", "Nikkei_Returns", "SP500_Returns", "VIX_Returns",
     "Nikkei_RV_5d", "Nikkei_RV_20d", "VIX_RV_Spread", "Nikkei_SP500_Ratio",
     "Ratio_MA20", "Ratio_Deviation"}

\* download_data, lines 41-64: the frame built on vix.index, then dropna().
download_data(e) ==
    LET vix    == yf_download(e, "^VIX")
        nikkei == yf_download(e, "^N225")
        sp500  == yf_download(e, "^GSPC")
        n      == Cardinality(DOMAIN vix)
        VIX    == Reindex(vix, n)
        Nikkei == Reindex(nikkei, n)
        SP500  == Reindex(sp500, n)
        NRet   == pct_change(Nikkei)
        SRet   == pct_change(SP500)
        VRet   == pct_change(VIX)
        RV5    == rolling_std_annualized(NRet, ShortWindow, FlatSeries(e, "RV5"))
        RV20   == rolling_std_annualized(NRet, Window, RawSeries(e, "RV20"))
        Ratio  == [i \in 1..n |-> CellRatio(Nikkei[i], SP500[i])]
        MA20   == rolling_mean(Ratio, Window)
        data   == [i \in 1..n |->
                     [Date |-> i - 1,
                      VIX |-> VIX[i], Nikkei |-> Nikkei[i], SP500 |-> SP500[i],
                      Nikkei_Returns |-> NRet[i], SP500_Returns |-> SRet[i],
                      VIX_Returns |-> VRet[i],
                      Nikkei_RV_5d |-> RV5[i], Nikkei_RV_20d |-> RV20[i],
                      VIX_RV_Spread |-> CellSub(VIX[i], RV20[i]),
                      Nikkei_SP500_Ratio |-> Ratio[i],
                      Ratio_MA20 |-> MA20[i],
                      Ratio_Deviation |-> CellSub(Ratio[i], MA20[i])]]
    IN [columns |-> DownloadColumns, rows |-> dropna(data, DownloadColumns)]

-----------------------------------------------------------------------------
(* The methods of GitHubVIXAnalyzer.  A method is an operator from the object *)
(* (and the outside world) to the object after the call and what it returns.  *)

HasColumn(data, name) == name \in data.columns
\* self.data[name] = ...: fields[i] holds the new cells of row i
AddColumns(data, names, fields) ==
    [columns |-> data.columns \cup names,
     rows    |-> [i \in 1..Len(data.rows) |-> fields[i] @@ data.rows[i]]]

NewAnalyzer == [data |-> NoFrame, garch_model |-> None, risk_score |-> 0, risk_level |-> ""]

\* fit_garch_model, lines 68-88.  env.fit says where the arch library raises,
\* if it does: in arch_model(...) (line 75), in fit() (line 77), or nowhere.
\* An empty return series cannot be fitted: fit() raises whatever env.fit says.
\* GARCH_Vol is held in the unit that GARCH_Vol * sqrt(252) turns into
\* 1/InputScale of a percentage point.
fit_garch_model(self, e) ==
    LET rows     == self.data.rows
        returns  == SelectSeq(rows, LAMBDA r : ~IsNaN(r.Nikkei_Returns))
        outcome  == IF Len(returns) = 0 /\ e.fit = "ok" THEN "raise_fit" ELSE e.fit
        series   == RawSeries(e, "GARCH")
        cond_vol == [d \in {returns[i].Date : i \in 1..Len(returns)} |-> series[d + 1]]
        vol(i)   == IF rows[i].Date \in DOMAIN cond_vol
                    THEN Cell(cond_vol[rows[i].Date]) ELSE NaN
        fitted   == AddColumns(self.data, {"GARCH_Vol", "GARCH_Vol_Annualized"},
                       [i \in 1..Len(rows) |-> [GARCH_Vol |-> vol(i), GARCH_Vol_Annualized |-> vol(i)]])
    IN CASE outcome = "raise_model" ->
              [self |-> self, ret |-> None]
         [] outcome = "raise_fit" ->
              [self |-> [self EXCEPT !.garch_model = "ARCHModel"], ret |-> None]
         [] outcome = "ok" ->
              [self |-> [self EXCEPT !.garch_model = "ARCHModel", !.data = fitted],
               ret  |-> "ARCHModelResult"]

\* VIX > VIX_MA20 + VIX.rolling(20).std(), exactly: with S and Q the sums of the
\* window's values and squares, w*v - S > 0 and (w*v - S)^2 (w-1) > w (w*Q - S^2).
vix_spike(col, w, i) ==
    /\ WindowDefined(col, w, i)
    /\ LET xs == WindowValues(col, w, i)
           v  == Val(col[i])
           S  == SumSeq(xs)
           Q  == SumSeq([k \in 1..w |-> xs[k] * xs[k]])
       IN w * v - S > 0 /\ (w * v - S) * (w * v - S) * (w - 1) > w * (w * Q - S * S)

DefinedValues(col) == Values(SelectSeq(col, LAMBDA c : ~IsNaN(c)))

vol_regime(c, gs) ==
    IF ~IsNaN(c) /\ AboveQuantile(Val(c), gs, RegimeHighPct) THEN "High"
    ELSE IF ~IsNaN(c) /\ BelowQuantile(Val(c), gs, RegimeLowPct) THEN "Low"
    ELSE "Medium"

ratio_extreme(c, devs) == AboveSigmas(Abs(Val(c)), devs, RatioSigmas)

\* calculate_risk_indicators, lines 90-109
calculate_risk_indicators(self) ==
    LET data  == self.data
        rows  == data.rows
        VIX   == Column(rows, "VIX")
        MA20  == rolling_mean(VIX, Window)
        devs  == Values(Column(rows, "Ratio_Deviation"))
        base  == AddColumns(data, {"VIX_MA20", "VIX_Spike", "Ratio_Extreme"},
                    [i \in 1..Len(rows) |->
                        [VIX_MA20 |-> MA20[i],
                         VIX_Spike |-> vix_spike(VIX, Window, i),
                         Ratio_Extreme |-> ratio_extreme(rows[i].Ratio_Deviation, devs)]])
        gs    == DefinedValues(Column(rows, "GARCH_Vol_Annualized"))
        withRegime == AddColumns(base, {"Vol_Regime"},
                    [i \in 1..Len(rows) |->
                        [Vol_Regime |-> vol_regime(rows[i].GARCH_Vol_Annualized, gs)]])
    IN [self EXCEPT !.data = IF HasColumn(data, "GARCH_Vol_Annualized")
                             THEN withRegime ELSE base]

\* The four conditions of generate_signals, lines 116-123, for row r of data
vix_elevated(data, r) == Val(r.VIX) > VixElevatedLevel * InputScale
vix_rv_spread_high(data, r) ==
    AboveQuantile(Val(r.VIX_RV_Spread), Values(Column(data.rows, "VIX_RV_Spread")),
                  SpreadQuantilePct)
ratio_extreme_flag(data, r) == r.Ratio_Extreme
vol_regime_high(data, r) ==
    IF HasColumn(data, "Vol_Regime") THEN r.Vol_Regime = "High" ELSE FALSE

AsInt(b) == IF b THEN 1 ELSE 0

\* The sum without its last term
signal_count_without_regime(data, r) ==
    AsInt(vix_elevated(data, r)) + AsInt(vix_rv_spread_high(data, r))
    + AsInt(ratio_extreme_flag(data, r))

\* lines 126-129
signal_count(data, r) ==
    AsInt(vix_elevated(data, r)) + AsInt(vix_rv_spread_high(data, r))
    + AsInt(ratio_extreme_flag(data, r)) + AsInt(vol_regime_high(data, r))

warning_signal(count) == count >= WarningCount
crash_signal(count) == count >= CrashCount

\* generate_signals, lines 111-134
generate_signals(self) ==
    LET data == self.data
    IN [self EXCEPT !.data =
          AddColumns(data, {"Warning_Signal", "Crash_Signal"},
              [i \in 1..Len(data.rows) |->
                  [Warning_Signal |-> warning_signal(signal_count(data, data.rows[i])),
                   Crash_Signal   |-> crash_signal(signal_count(data, data.rows[i]))]])]

\* The four sub-scores of calculate_risk_score, lines 141-149, in 1/ScoreScale
Cap == ScoreCap * ScoreScale
\* The score without its min(..., 100)
vix_score_unclamped(latest) ==
    (Val(latest.VIX) * ScorePercent * ScoreScale) \div (VixDivisor * InputScale)

vix_score(latest) ==
    Min((Val(latest.VIX) * ScorePercent * ScoreScale) \div (VixDivisor * InputScale), Cap)
\* The fallback reading the 5-day column
volatility_source_rv5(data) ==
    IF HasColumn(data, "GARCH_Vol_Annualized") THEN "GARCH_Vol_Annualized" ELSE "Nikkei_RV_5d"

volatility_source(data) ==
    IF HasColumn(data, "GARCH_Vol_Annualized") THEN "GARCH_Vol_Annualized" ELSE "Nikkei_RV_20d"
garch_score(data, latest) ==
    Min((Val(latest[volatility_source(data)]) * ScorePercent * ScoreScale)
            \div (VolDivisor * InputScale), Cap)
spread_score(latest) ==
    Min((Abs(Val(latest.VIX_RV_Spread)) * ScorePercent * ScoreScale)
            \div (SpreadDivisor * InputScale), Cap)
ratio_score(latest) ==
    Min((Abs(Val(latest.Ratio_Deviation)) * RatioMultiplier * ScoreScale) \div RatioScale, Cap)

\* The division binding to the last term only
total_score_last_term_divided(vs, gs, ss, rs) == vs + gs + ss + (rs \div 4)

\* line 152
total_score(vs, gs, ss, rs) == (vs + gs + ss + rs) \div 4

\* The thresholds compared with >=
risk_level_inclusive(score) ==
    IF score >= HighThreshold * ScoreScale THEN "HIGH RISK"
    ELSE IF score >= MediumThreshold * ScoreScale THEN "MEDIUM RISK"
    ELSE "LOW RISK"

\* lines 155-160 (the level strings without their emoji)
risk_level(score) ==
    IF score > HighThreshold * ScoreScale THEN "HIGH RISK"
    ELSE IF score > MediumThreshold * ScoreScale THEN "MEDIUM RISK"
    ELSE "LOW RISK"

Latest(data) == data.rows[Len(data.rows)]       \* self.data.iloc[-1]

\* The composite accumulated into self.risk_score (+= for =)
calculate_risk_score_accumulating(self) ==
    LET latest == Latest(self.data)
        vs == vix_score(latest)
        gs == garch_score(self.data, latest)
        ss == spread_score(latest)
        rs == ratio_score(latest)
        total == self.risk_score + total_score(vs, gs, ss, rs)
        level == risk_level(total)
    IN [self |-> [self EXCEPT !.risk_score = total, !.risk_level = level],
        ret  |-> [total_score |-> total, level |-> level, vix_score |-> vs,
                  volatility_score |-> gs, spread_score |-> ss, ratio_score |-> rs]]

\* calculate_risk_score, lines 136-171, on a frame with at least one row
calculate_risk_score(self) ==
    LET latest == Latest(self.data)
        vs == vix_score(latest)
        gs == garch_score(self.data, latest)
        ss == spread_score(latest)
        rs == ratio_score(latest)
        total == total_score(vs, gs, ss, rs)
        level == risk_level(total)
    IN [self |-> [self EXCEPT !.risk_score = total, !.risk_level = level],
        ret  |-> [total_score |-> total, level |-> level, vix_score |-> vs,
                  volatility_score |-> gs, spread_score |-> ss, ratio_score |-> rs]]

Dates(rows) == {rows[i].Date : i \in 1..Len(rows)}

\* create_dashboard, lines 173-319, on a frame with at least one row: what is
\* drawn (the score bars, the total's annotation, the signal markers) and written
create_dashboard(self) ==
    LET call == calculate_risk_score(self)
        me   == call.self
        rows == me.data.rows
    IN [self |-> me,
        risk_data |-> call.ret,
        ret  |-> [risk_values |-> <<call.ret.vix_score, call.ret.volatility_score,
                                    call.ret.spread_score, call.ret.ratio_score>>,
                  total |-> me.risk_score, level |-> me.risk_level,
                  garch_trace |-> HasColumn(me.data, "GARCH_Vol_Annualized"),
                  warning_dates |-> Dates(SelectSeq(rows, LAMBDA r : r.Warning_Signal)),
                  crash_dates   |-> Dates(SelectSeq(rows, LAMBDA r : r.Crash_Signal)),
                  html_file |-> "docs/index.html"]]

\* round(x, 1) of a score: the tenths nearest to x/ScoreScale.  Halfway between
\* two tenths the float's binary expansion decides: either neighbour.
Round1(x) ==
    LET unit == ScoreScale \div 10
        q == x \div unit
        r == x % unit
    IN IF 2 * r < unit THEN {q} ELSE IF 2 * r > unit THEN {q + 1} ELSE {q, q + 1}

\* The alert with `and` for `or`
alert_required_and(score, crash) == score > AlertThreshold * ScoreScale /\ crash

\* line 353
alert_required(score, crash) == score > AlertThreshold * ScoreScale \/ crash

\* generate_json_report, lines 321-363, on a frame with at least one row: the
\* reports it can return (scores in tenths, current metrics in the columns' units)
generate_json_report(self) ==
    LET call   == calculate_risk_score(self)
        me     == call.self
        rd     == call.ret
        latest == Latest(self.data)
    IN { [self |-> me,
          risk_data |-> rd,
          ret |-> [analysis_date |-> latest.Date,
                   risk_assessment |->
                     [total_score |-> t, level |-> me.risk_level,
                      components |-> [vix_score |-> c[1], volatility_score |-> c[2],
                                      spread_score |-> c[3], ratio_score |-> c[4]]],
                   current_metrics |->
                     [vix |-> Val(latest.VIX), nikkei |-> Val(latest.Nikkei),
                      sp500 |-> Val(latest.SP500),
                      nikkei_rv_20d |-> Val(latest.Nikkei_RV_20d),
                      vix_rv_spread |-> Val(latest.VIX_RV_Spread),
                      nikkei_sp500_ratio |-> Val(latest.Nikkei_SP500_Ratio)],
                   signals |-> [warning_signal |-> AsInt(latest.Warning_Signal),
                                crash_signal |-> AsInt(latest.Crash_Signal)],
                   alert_required |-> alert_required(me.risk_score, latest.Crash_Signal)]]
         : t \in Round1(me.risk_score),
           c \in Round1(rd.vix_score) \X Round1(rd.volatility_score)
                 \X Round1(rd.spread_score) \X Round1(rd.ratio_score) }

-----------------------------------------------------------------------------
(* main(), lines 365-389: one action per call; pc names the call to come *)

Abort(exc) ==
    /\ pc' = "aborted"
    /\ error' = exc

\* line 370; download_data raises ValueError at line 39 when a series is empty
DownloadData ==
    /\ pc = "download_data"
    /\ IF \/ IsEmpty(yf_download(env, "^VIX"))
          \/ IsEmpty(yf_download(env, "^N225"))
          \/ IsEmpty(yf_download(env, "^GSPC"))
       THEN /\ Abort("ValueError")
            /\ UNCHANGED analyzer
       ELSE /\ analyzer' = [analyzer EXCEPT !.data = download_data(env)]
            /\ pc' = "fit_garch_model"
            /\ UNCHANGED error
    /\ UNCHANGED <<env, fit_result, risk_data, dashboard, report>>

\* line 371
FitGarchModel ==
    /\ pc = "fit_garch_model"
    /\ LET call == fit_garch_model(analyzer, env)
       IN /\ analyzer' = call.self
          /\ fit_result' = call.ret
    /\ pc' = "calculate_risk_indicators"
    /\ UNCHANGED <<env, risk_data, dashboard, report, error>>

\* line 372
CalculateRiskIndicators ==
    /\ pc = "calculate_risk_indicators"
    /\ analyzer' = calculate_risk_indicators(analyzer)
    /\ pc' = "generate_signals"
    /\ UNCHANGED <<env, fit_result, risk_data, dashboard, report, error>>

\* line 373
GenerateSignals ==
    /\ pc = "generate_signals"
    /\ analyzer' = generate_signals(analyzer)
    /\ pc' = "create_dashboard"
    /\ UNCHANGED <<env, fit_result, risk_data, dashboard, report, error>>

\* line 376; self.data.iloc[-1] at line 210 raises IndexError on an empty frame
CreateDashboard ==
    /\ pc = "create_dashboard"
    /\ IF Len(analyzer.data.rows) = 0
       THEN /\ Abort("IndexError")
            /\ UNCHANGED <<analyzer, risk_data, dashboard>>
       ELSE LET call == create_dashboard(analyzer)
            IN /\ analyzer' = call.self
               /\ risk_data' = Some(call.risk_data)
               /\ dashboard' = Some(call.ret)
               /\ pc' = "generate_json_report"
               /\ UNCHANGED error
    /\ UNCHANGED <<env, fit_result, report>>

\* lines 377-389; self.data.iloc[-1] at line 323 raises IndexError on an empty frame
GenerateJsonReport ==
    /\ pc = "generate_json_report"
    /\ IF Len(analyzer.data.rows) = 0
       THEN /\ Abort("IndexError")
            /\ UNCHANGED <<analyzer, risk_data, report>>
       ELSE \E call \in generate_json_report(analyzer) :
               /\ analyzer' = call.self
               /\ risk_data' = Some(call.risk_data)
               /\ report' = Some(call.ret)
               /\ pc' = "done"
               /\ UNCHANGED error
    /\ UNCHANGED <<env, fit_result, dashboard>>

InitWith(ns, VIXs, Nikkeis, RVs, Garchs) ==
    /\ EnvIn(env, ns, VIXs, Nikkeis, RVs, Garchs)
    /\ analyzer = NewAnalyzer
    /\ pc = "download_data"
    /\ fit_result = "not called"
    /\ risk_data = Absent
    /\ dashboard = Absent
    /\ report = Absent
    /\ error = ""

Init == InitWith(0..(Window + MaxRows), VIXValues, NikkeiValues, RVValues, GarchValues)

Next ==
    \/ DownloadData
    \/ FitGarchModel
    \/ CalculateRiskIndicators
    \/ GenerateSignals
    \/ CreateDashboard
    \/ GenerateJsonReport

Spec == Init /\ [][Next]_vars

\* The runs that decide the scores: one row past the first Window ones, with
\* values up to far past every score's saturation point and values that put
\* the composite on and next to its thresholds.
ScoreVIXValues == {1, 160, 280, 10000}
ScoreRVValues == {140, 180, 5000}
ScoreNikkeiValues == {34000, 38000, 38400}
ScoreGarchValues == {0, 82, 83, 92, 93, 202, 203, 9000}

InitScore ==
    InitWith({Window + 1}, ScoreVIXValues, ScoreNikkeiValues, ScoreRVValues, ScoreGarchValues)

SpecScore == InitScore /\ [][Next]_vars

\* The runs that decide which rows survive download_data: raw series of up to
\* Window + MaxRowsLong rows, one value per column.
InitRows == InitWith(0..(Window + MaxRowsLong), {250}, {38200}, {100}, {150})

SpecRows == InitRows /\ [][Next]_vars

-----------------------------------------------------------------------------
(* Properties *)

Rows == analyzer.data.rows
Returned == risk_data[1]        \* the dict, where risk_data # Absent
FullScore == 100 * ScoreScale

\* The conditions of a period that hold, read off the table's columns
ConditionsHeld(data, r) ==
    {c \in {"vix", "spread", "ratio", "regime"} :
        \/ c = "vix" /\ Val(r.VIX) > 25 * InputScale
        \/ c = "spread" /\ AboveQuantile(Val(r.VIX_RV_Spread),
                                         Values(Column(data.rows, "VIX_RV_Spread")), 80)
        \/ c = "ratio" /\ r.Ratio_Extreme
        \/ c = "regime" /\ HasColumn(data, "Vol_Regime") /\ r.Vol_Regime = "High"}

\* C1: each of the four sub-scores returned by calculate_risk_score lies in
\* [0,100], and an input at or above its saturation point (VIX 40, volatility
\* 30, |spread| 15, |deviation| 0.1) gives exactly 100.
C1_SubScoresBounded ==
    risk_data # Absent =>
        LET latest == Latest(analyzer.data)
            vol == IF HasColumn(analyzer.data, "GARCH_Vol_Annualized")
                   THEN latest.GARCH_Vol_Annualized ELSE latest.Nikkei_RV_20d
        IN /\ \A k \in {"vix_score", "volatility_score", "spread_score", "ratio_score"} :
                 0 <= Returned[k] /\ Returned[k] <= FullScore
           /\ Val(latest.VIX) >= 40 * InputScale => Returned.vix_score = FullScore
           /\ Val(vol) >= 30 * InputScale => Returned.volatility_score = FullScore
           /\ Abs(Val(latest.VIX_RV_Spread)) >= 15 * InputScale
                 => Returned.spread_score = FullScore
           /\ 10 * Abs(Val(latest.Ratio_Deviation)) >= RatioScale
                 => Returned.ratio_score = FullScore

\* C1 witness: a score has been returned for a latest VIX of 1000
C1_Witness ==
    /\ risk_data # Absent
    /\ Val(Latest(analyzer.data).VIX) = 1000 * InputScale
    /\ Returned.vix_score = FullScore

\* C2: the level is HIGH exactly when total_score > 70, MEDIUM exactly when
\* 40 < total_score <= 70, LOW exactly when total_score <= 40.
C2_LevelByThresholds ==
    risk_data # Absent =>
        LET t == Returned.total_score
            l == Returned.level
        IN /\ l \in {"HIGH RISK", "MEDIUM RISK", "LOW RISK"}
           /\ l = "HIGH RISK" <=> t > 70 * ScoreScale
           /\ l = "MEDIUM RISK" <=> (40 * ScoreScale < t /\ t <= 70 * ScoreScale)
           /\ l = "LOW RISK" <=> t <= 40 * ScoreScale

\* C2 witness: a composite of exactly 70, classified MEDIUM
C2_Witness ==
    /\ risk_data # Absent
    /\ Returned.total_score = 70 * ScoreScale
    /\ Returned.level = "MEDIUM RISK"

\* C3: in every period the signal count is the number of the four conditions
\* that hold, Warning_Signal is count >= 2 and Crash_Signal is count >= 3.
C3_SignalsFromCount ==
    HasColumn(analyzer.data, "Warning_Signal") =>
        \A i \in 1..Len(Rows) :
            LET count == Cardinality(ConditionsHeld(analyzer.data, Rows[i]))
            IN /\ count \in 0..4
               /\ signal_count(analyzer.data, Rows[i]) = count
               /\ Rows[i].Warning_Signal = (count >= 2)
               /\ Rows[i].Crash_Signal = (count >= 3)

\* C3 witness: signals computed on a table with a period of count 2 (warning,
\* no crash) and a period of count 4
C3_Witness ==
    /\ HasColumn(analyzer.data, "Warning_Signal")
    /\ \E i \in 1..Len(Rows) :
          /\ Cardinality(ConditionsHeld(analyzer.data, Rows[i])) = 2
          /\ Rows[i].Warning_Signal /\ ~Rows[i].Crash_Signal
    /\ \E i \in 1..Len(Rows) :
          /\ Cardinality(ConditionsHeld(analyzer.data, Rows[i])) = 4
          /\ Rows[i].Crash_Signal

\* C4: without the volatility-model output the regime adds nothing to any
\* period's count (the signals follow from the other three conditions) and
\* volatility_score is computed from Nikkei_RV_20d; with it, volatility_score
\* is computed from GARCH_Vol_Annualized.
C4_ModelAbsentFallback ==
    LET data == analyzer.data
        absent == ~HasColumn(data, "GARCH_Vol_Annualized")
        score(c) == Min((Val(c) * 100 * ScoreScale) \div (30 * InputScale), FullScore)
    IN /\ (absent /\ HasColumn(data, "Warning_Signal")) =>
              /\ ~HasColumn(data, "Vol_Regime")
              /\ \A i \in 1..Len(Rows) :
                    LET three == Cardinality(ConditionsHeld(data, Rows[i]) \ {"regime"})
                    IN /\ Rows[i].Warning_Signal = (three >= 2)
                       /\ Rows[i].Crash_Signal = (three >= 3)
       /\ risk_data # Absent =>
              Returned.volatility_score =
                  IF absent THEN score(Latest(data).Nikkei_RV_20d)
                  ELSE score(Latest(data).GARCH_Vol_Annualized)

\* C4 witness: a failed fit, a score returned from the realized volatility, and
\* a latest period where the other three conditions all hold
C4_Witness ==
    /\ fit_result = None
    /\ ~HasColumn(analyzer.data, "GARCH_Vol_Annualized")
    /\ risk_data # Absent
    /\ Returned.volatility_score =
           (Val(Latest(analyzer.data).Nikkei_RV_20d) * 100 * ScoreScale) \div (30 * InputScale)
    /\ Returned.volatility_score < FullScore
    /\ Cardinality(ConditionsHeld(analyzer.data, Latest(analyzer.data))) = 3

\* C5: once the fit has failed, the table holds neither model column, its
\* other columns are as download_data left them, and the run does not abort.
C5_FitFailureRecovers ==
    fit_result = None =>
        LET downloaded == download_data(env).rows
        IN /\ ~HasColumn(analyzer.data, "GARCH_Vol")
           /\ ~HasColumn(analyzer.data, "GARCH_Vol_Annualized")
           /\ Len(Rows) = Len(downloaded)
           /\ \A i \in 1..Len(Rows) : \A c \in DownloadColumns :
                 Rows[i][c] = downloaded[i][c]
           /\ pc # "aborted"

\* C6: a run whose raw series are empty or share no date has aborted without
\* computing anything and without a report, as soon as download_data is over;
\* a run that has ended without aborting has a report.
C6_FatalInputAborts ==
    LET vix    == yf_download(env, "^VIX")
        nikkei == yf_download(env, "^N225")
        sp500  == yf_download(env, "^GSPC")
        fatal  == \/ IsEmpty(vix) \/ IsEmpty(nikkei) \/ IsEmpty(sp500)
                  \/ (DOMAIN vix) \cap (DOMAIN nikkei) \cap (DOMAIN sp500) = {}
    IN /\ (fatal /\ pc # "download_data") =>
              /\ pc = "aborted"
              /\ analyzer = NewAnalyzer
              /\ fit_result = "not called"
              /\ risk_data = Absent /\ dashboard = Absent /\ report = Absent
       /\ pc = "done" => report # Absent

\* C7: alert_required is true exactly when the total_score computed for the
\* report exceeds 60 or the latest period's Crash_Signal is set.
C7_AlertRequired ==
    report # Absent =>
        report[1].alert_required =
            (Returned.total_score > 60 * ScoreScale \/ Latest(analyzer.data).Crash_Signal)

\* C7 witness: a report that requires an alert for the score alone
C7_Witness ==
    /\ report # Absent
    /\ report[1].alert_required
    /\ Returned.total_score > 60 * ScoreScale
    /\ ~Latest(analyzer.data).Crash_Signal

\* C8: total_score is the sum of the four returned sub-scores divided by 4, and
\* lies in [0,100].
C8_TotalIsMean ==
    risk_data # Absent =>
        /\ 4 * Returned.total_score = Returned.vix_score + Returned.volatility_score
                                      + Returned.spread_score + Returned.ratio_score
        /\ 0 <= Returned.total_score /\ Returned.total_score <= FullScore

\* C8 witness: a result with four different sub-scores
C8_Witness ==
    /\ risk_data # Absent
    /\ Cardinality({Returned.vix_score, Returned.volatility_score,
                    Returned.spread_score, Returned.ratio_score}) = 4
    /\ Returned.total_score > 0

\* C9: download_data keeps exactly the rows with 20 prior periods and no
\* undefined value: of n fully populated raw rows, rows 20..n-1 in order (none
\* when n <= 20), each with its raw value; of series sharing no date, none.
C9_SurvivingRows ==
    (pc # "download_data" /\ error # "ValueError") =>
        /\ \A i \in 1..Len(Rows) :
              /\ Rows[i].Date >= 20
              /\ \A c \in DownloadColumns : Rows[i][c] # <<>>
        /\ IF env.nikkei = "aligned" /\ env.sp500 = "aligned"
           THEN /\ Len(Rows) = IF env.n > 20 THEN env.n - 20 ELSE 0
                /\ \A i \in 1..Len(Rows) :
                      /\ Rows[i].Date = 19 + i
                      /\ Rows[i].VIX = <<RawSeries(env, "VIX")[20 + i]>>
           ELSE Len(Rows) = 0

\* C9 witness: 25 fully populated raw rows, of which rows 20-24 are kept
C9_Witness ==
    /\ pc = "fit_garch_model"
    /\ env.n = 25 /\ env.nikkei = "aligned" /\ env.sp500 = "aligned"
    /\ [i \in 1..Len(Rows) |-> Rows[i].Date] = <<20, 21, 22, 23, 24>>

\* A step of main that calls calculate_risk_score and returns from it
ScoreCall ==
    \/ pc = "create_dashboard" /\ pc' = "generate_json_report"
    \/ pc = "generate_json_report" /\ pc' = "done"

\* C10 as stated: a call of calculate_risk_score leaves the table and every
\* field of the analyzer unchanged, and a repeated call returns the same.
C10_NoSideEffect ==
    [][ScoreCall => /\ analyzer' = analyzer
                    /\ risk_data # Absent => risk_data' = risk_data]_vars

\* C10 amended: a call of calculate_risk_score leaves the table and garch_model
\* unchanged and sets risk_score and risk_level to the total_score and level it
\* returns; a repeated call on the unchanged table returns the same result.
C10_OnlyScoreFieldsSet ==
    [][ScoreCall => /\ analyzer'.data = analyzer.data
                    /\ analyzer'.garch_model = analyzer.garch_model
                    /\ analyzer'.risk_score = risk_data'[1].total_score
                    /\ analyzer'.risk_level = risk_data'[1].level
                    /\ risk_data # Absent => risk_data' = risk_data]_vars

\* C10 witness: the second call has returned, and the fields hold a non-zero
\* score and its level
C10_Witness ==
    /\ pc = "done"
    /\ risk_data # Absent /\ dashboard # Absent
    /\ analyzer.risk_score = Returned.total_score /\ analyzer.risk_score > 0
    /\ analyzer.risk_level = Returned.level
    /\ dashboard[1].total = Returned.total_score

====
